---- MODULE Spec2Model ----
(***************************************************************************)
(* Ranking-aware train/test splitting (TrainTestSplit.py) and the parallel *)
(* fit / evaluate / select loop (RankingTrainValidationSplit.py).          *)
(*                                                                         *)
(* A DataFrame is an unordered bag of rows.  The input DataFrame is the    *)
(* sequence `ratings` of its rows in a canonical order; a row is           *)
(* identified by its position, so two equal rows stay two records.  Every  *)
(* DataFrame derived from it (a filter, a join against a table with one    *)
(* row per key) holds each input row at most once and is the set of the    *)
(* positions it holds.  The rating column takes part in no operation of    *)
(* the splitters and is left out of the rows.                              *)
(***************************************************************************)
EXTENDS Integers, Sequences, FiniteSets, TLC

\* ---- bounds of the model ----
MaxRows == 3
MaxMinRating == 3
MaxSample == 2
MaxModels == 3
MaxParallelism == 2

\* customer ids, item ids and timestamps of the rows
CustomerIDs == {1, 2}
ItemIDs == {1, 2}
TimeStamps == {1, 2}
\* the values eva.evaluate can return
MetricValues == {1, 2}
\* ratios strictly between 0 and 1, in tenths (3 stands for ratio = 0.3)
Ratios == {3, 5, 7}
\* default arguments of stratified_split / chronological_split
DefaultRatio == 3
DefaultSample == 3

VARIABLES
    \* -- a call of a splitter of TrainTestSplit --
    ratings,    \* the DataFrame the splitter is called on (self)
    op,         \* the splitter method that was called, "none" before the call
    args,       \* the arguments of the call
    ret,        \* what the call returned
    \* -- a call of RankingTrainValidationSplit._fit --
    numModels,          \* len(epm)
    parallelism,        \* self.getParallelism()
    isLargerBetter,     \* eva.isLargerBetter()
    collectSubModels,   \* self.getCollectSubModels()
    metricOf,           \* metricOf[i]: what eva.evaluate gives for the model of epm[i]
    counter,            \* position of the shared iterator modelIter
    nextTask,           \* tasks of the list handed to pool workers so far
    running,            \* the trials the pool's worker threads are running
    outqueue,           \* results of finished tasks, not yet taken by the for loop
    taken,              \* results the for loop has taken
    metrics,            \* the metrics list
    subModels,          \* the subModels list (<<>> is None)
    pc,                 \* where the thread running _fit stands
    bestIndex,          \* <<>> until chosen
    bestModel,          \* <<>> until refitted
    \* -- history, read by the properties only --
    writes,             \* writes[i]: the indexes of the results written to metrics[i], in order
    raised              \* configurations whose trial raised

splitVars == <<ratings, op, args, ret>>
fitParams == <<numModels, parallelism, isLargerBetter, collectSubModels, metricOf>>
fitVars == <<numModels, parallelism, isLargerBetter, collectSubModels, metricOf,
             counter, nextTask, running, outqueue, taken, metrics, subModels,
             pc, bestIndex, bestModel, writes, raised>>
vars == <<ratings, op, args, ret,
          numModels, parallelism, isLargerBetter, collectSubModels, metricOf,
          counter, nextTask, running, outqueue, taken, metrics, subModels,
          pc, bestIndex, bestModel, writes, raised>>

Row == [customerID : CustomerIDs, itemID : ItemIDs, timeStamp : TimeStamps]

RowKey(r) == (r.customerID * 10 + r.itemID) * 10 + r.timeStamp

\* the bags of at most MaxRows rows, each as its canonically ordered sequence
DataFrames ==
    {s \in UNION {[1..n -> Row] : n \in 0..MaxRows} :
        \A i \in 1..(Len(s) - 1) : RowKey(s[i]) <= RowKey(s[i + 1])}

NoArgs == [min_rating |-> 0, by_customer |-> TRUE, ratio |-> DefaultRatio,
           fixed_test_sample |-> FALSE, sample |-> DefaultSample]

\* return values: the error sentinel -1, one DataFrame, or a (train, test) pair
ErrorSentinel == [kind |-> "error", train |-> {}, test |-> {}]
Frame(rows) == [kind |-> "frame", train |-> rows, test |-> {}]
Pair(train, test) == [kind |-> "pair", train |-> train, test |-> test]
NoReturn == [kind |-> "none", train |-> {}, test |-> {}]

\* ---- column selection (by / with) ----
split_by_column(by_customer) == IF by_customer THEN "customerID" ELSE "itemID"
split_with_column(by_customer) == IF by_customer THEN "itemID" ELSE "customerID"

\* groupBy(column).agg({...: "count"}): one row per key with the number of
\* rows of the group (ids are never null, so count(column) counts every row)
GroupCount(rows, self, column) ==
    [k \in {rows[i][column] : i \in self} |->
        Cardinality({i \in self : rows[i][column] = k})]

\* .where(col("n" + split_with_column) >= min_rating)
SupportOkStrict(n, min_rating) == n > min_rating
SupportOk(n, min_rating) == n >= min_rating

min_rating_filter(rows, self, min_rating, by_customer) ==
    LET by == split_by_column(by_customer)
        grouped == GroupCount(rows, self, by)
        kept == {k \in DOMAIN grouped : SupportOk(grouped[k], min_rating)}
    IN  \* .join(self, split_by_column)
        {i \in self : rows[i][by] \in kept}

\* ---- window functions ----
\* row_number().over(Window.partitionBy(...).orderBy(...)) on the rows rowset:
\* part[i] is the partition of row i and <<i, j>> \in before says that the
\* ordering puts row i before row j.  The result is every numbering that
\* counts each partition 1..size and respects the ordering; rows the ordering
\* does not separate are numbered in any order.
RowNumber(rowset, part, before) ==
    {rank \in [rowset -> 1..Cardinality(rowset)] :
        \A i \in rowset :
            /\ rank[i] <= Cardinality({j \in rowset : part[j] = part[i]})
            /\ \A j \in rowset \ {i} :
                  part[j] = part[i] =>
                      /\ rank[j] # rank[i]
                      /\ <<i, j>> \in before => rank[i] < rank[j]}

\* bround(x): round half to even, of the exact value num / den
broundFloor(num, den) == num \div den
bround(num, den) ==
    LET q == num \div den
        r == num % den
    IN  IF 2 * r < den THEN q
        ELSE IF 2 * r > den THEN q + 1
        ELSE IF q % 2 = 0 THEN q ELSE q + 1

\* fixed_test_sample == True & sample > min_rating
\* Python parses it as the chain  fixed_test_sample == (True & sample) > min_rating
sample_guard(fixed_test_sample, sample, min_rating) ==
    LET bit == sample % 2                              \* True & sample
        flag == IF fixed_test_sample THEN 1 ELSE 0     \* bool compared to int
    IN  flag = bit /\ bit > min_rating

\* .filter(col('rank') > splitPoint)  /  .filter(col('rank') <= splitPoint)
in_train(rank, splitPoint) == rank > splitPoint
in_testStrict(rank, splitPoint) == rank < splitPoint
in_test(rank, splitPoint) == rank <= splitPoint

\* the split shared by stratified_split and chronological_split: the window
\* is evaluated once for rating_train and once more for rating_test
ranked_split(rows, rating_joined, by, orderBy, ratio, fixed_test_sample, sample) ==
    LET rating_grouped == GroupCount(rows, rating_joined, by)
        splitPoint(i) == IF fixed_test_sample THEN sample
                         ELSE bround(rating_grouped[rows[i][by]] * ratio, 10)
        window_spec == RowNumber(rating_joined, [i \in rating_joined |-> rows[i][by]], orderBy)
        rating_train == {{i \in rating_joined : in_train(rank[i], splitPoint(i))} :
                            rank \in window_spec}
        rating_test == {{i \in rating_joined : in_test(rank[i], splitPoint(i))} :
                            rank \in window_spec}
    IN  {Pair(tr, te) : tr \in rating_train, te \in rating_test}

\* the set of values stratified_split can return
stratified_split(rows, self, min_rating, by_customer, ratio, fixed_test_sample, sample) ==
    IF sample_guard(fixed_test_sample, sample, min_rating) THEN {ErrorSentinel}
    ELSE ranked_split(rows, min_rating_filter(rows, self, min_rating, by_customer),
                      split_by_column(by_customer),
                      {},                              \* orderBy(rand())
                      ratio, fixed_test_sample, sample)

\* the set of values chronological_split can return
chronological_split(rows, self, min_rating, by_customer, ratio, fixed_test_sample, sample) ==
    IF sample_guard(fixed_test_sample, sample, min_rating) THEN {ErrorSentinel}
    ELSE ranked_split(rows, min_rating_filter(rows, self, min_rating, by_customer),
                      split_by_column(by_customer),
                      \* orderBy(col('timeStamp').desc())
                      {<<i, j>> \in self \X self : rows[i].timeStamp > rows[j].timeStamp},
                      ratio, fixed_test_sample, sample)

\* the set of values non_overlapping_split can return: rating_tmp is
\* evaluated once for rating_split[0] and once more for rating_split[1]
non_overlapping_split(rows, self, min_rating, by_customer, ratio) ==
    LET by == split_by_column(by_customer)
        rating_joined == min_rating_filter(rows, self, min_rating, by_customer)
        rating_exclusive == DOMAIN GroupCount(rows, rating_joined, by)
        count == Cardinality(rating_exclusive)
        rating_tmp == RowNumber(rating_exclusive, [k \in rating_exclusive |-> 0], {})
        \* round(count * ratio): Python 3 rounds half to even, as bround does
        cut == bround(count * ratio, 10)
        split0 == {{k \in rating_exclusive : rowNumber[k] <= cut} : rowNumber \in rating_tmp}
        split1 == {{k \in rating_exclusive : rowNumber[k] > cut} : rowNumber \in rating_tmp}
    IN  {Pair({i \in rating_joined : rows[i][by] \in s0},
              {i \in rating_joined : rows[i][by] \in s1}) : s0 \in split0, s1 \in split1}

AllRows == 1..Len(ratings)

\* ---- the calls ----
\* no _fit call is under way
FitIdle ==
    /\ numModels = 0 /\ parallelism = 0
    /\ isLargerBetter = FALSE /\ collectSubModels = FALSE
    /\ metricOf = <<>> /\ counter = 0 /\ nextTask = 0
    /\ running = {} /\ outqueue = <<>> /\ taken = 0
    /\ metrics = <<>> /\ subModels = <<>>
    /\ pc = "idle" /\ bestIndex = <<>> /\ bestModel = <<>>
    /\ writes = <<>> /\ raised = {}

SplitInit ==
    /\ ratings \in DataFrames
    /\ op = "none"
    /\ args = NoArgs
    /\ ret = NoReturn
    /\ FitIdle

CallMinRatingFilter ==
    /\ op = "none"
    /\ \E m \in 0..MaxMinRating, b \in BOOLEAN :
        /\ op' = "min_rating_filter"
        /\ args' = [NoArgs EXCEPT !.min_rating = m, !.by_customer = b]
        /\ ret' = Frame(min_rating_filter(ratings, AllRows, m, b))
    /\ UNCHANGED ratings
    /\ UNCHANGED fitVars

\* ratio mode leaves sample at its default, fixed-count mode leaves ratio
Modes ==
    {[NoArgs EXCEPT !.ratio = r] : r \in Ratios}
    \cup {[NoArgs EXCEPT !.fixed_test_sample = TRUE, !.sample = s] : s \in 0..MaxSample}

CallStratifiedSplit ==
    /\ op = "none"
    /\ \E mode \in Modes, m \in 0..MaxMinRating, b \in BOOLEAN :
        /\ op' = "stratified_split"
        /\ args' = [mode EXCEPT !.min_rating = m, !.by_customer = b]
        /\ ret' \in stratified_split(ratings, AllRows, m, b, mode.ratio,
                                     mode.fixed_test_sample, mode.sample)
    /\ UNCHANGED ratings
    /\ UNCHANGED fitVars

CallChronologicalSplit ==
    /\ op = "none"
    /\ \E mode \in Modes, m \in 0..MaxMinRating, b \in BOOLEAN :
        /\ op' = "chronological_split"
        /\ args' = [mode EXCEPT !.min_rating = m, !.by_customer = b]
        /\ ret' \in chronological_split(ratings, AllRows, m, b, mode.ratio,
                                        mode.fixed_test_sample, mode.sample)
    /\ UNCHANGED ratings
    /\ UNCHANGED fitVars

CallNonOverlappingSplit ==
    /\ op = "none"
    /\ \E r \in Ratios, m \in 0..MaxMinRating, b \in BOOLEAN :
        /\ op' = "non_overlapping_split"
        /\ args' = [NoArgs EXCEPT !.min_rating = m, !.by_customer = b, !.ratio = r]
        /\ ret' \in non_overlapping_split(ratings, AllRows, m, b, r)
    /\ UNCHANGED ratings
    /\ UNCHANGED fitVars

SplitNext ==
    \/ CallMinRatingFilter
    \/ CallStratifiedSplit
    \/ CallChronologicalSplit
    \/ CallNonOverlappingSplit

SplitSpec == SplitInit /\ [][SplitNext]_vars

(***************************************************************************)
(* Properties of the splitters, checked under SplitSpec.                   *)
(***************************************************************************)
IsRankedSplit == op \in {"stratified_split", "chronological_split"}

\* the grouping key and the counterpart key of row i in the call at hand
KeyOf(i) == IF args.by_customer THEN ratings[i].customerID ELSE ratings[i].itemID
CounterpartOf(i) == IF args.by_customer THEN ratings[i].itemID ELSE ratings[i].customerID
GroupRows(k) == {i \in AllRows : KeyOf(i) = k}
\* number of records of the group of row i / of distinct counterparts of that group
RecordSupport(i) == Cardinality(GroupRows(KeyOf(i)))
DistinctSupport(i) == Cardinality({CounterpartOf(j) : j \in GroupRows(KeyOf(i))})
\* the records and the groups that a filter by record count keeps
FilteredRows == {i \in AllRows : RecordSupport(i) >= args.min_rating}
RetainedGroups == {KeyOf(i) : i \in FilteredRows}

\* C1: stratified_split returns disjoint train and test sets whose union is
\* the output of min_rating_filter: every filtered record is in exactly one.
C1_StratifiedPartition ==
    (op = "stratified_split" /\ ret.kind = "pair") =>
        /\ ret.train \cap ret.test = {}
        /\ ret.train \cup ret.test =
               min_rating_filter(ratings, AllRows, args.min_rating, args.by_customer)

\* C2: a fixed-count request with sample >= min_rating to stratified_split
\* or chronological_split returns the error sentinel instead of a pair.
C2_FixedSampleRejected ==
    (IsRankedSplit /\ args.fixed_test_sample /\ args.sample >= args.min_rating) =>
        ret.kind = "error"

\* C3 as stated: min_rating_filter returns exactly the records whose group
\* has at least min_rating distinct counterpart entities.
C3_DistinctSupportFilter ==
    op = "min_rating_filter" =>
        ret.train = {i \in AllRows : DistinctSupport(i) >= args.min_rating}

\* C3 as amended: min_rating_filter returns exactly the records whose group
\* has at least min_rating records, repeated (customer, item) pairs counted
\* each time.
C3_RecordSupportFilter ==
    op = "min_rating_filter" =>
        /\ ret.kind = "frame"
        /\ ret.train = {i \in AllRows : RecordSupport(i) >= args.min_rating}

\* a group that reaches min_rating only through repeated counterparts is kept,
\* next to a group that is dropped
C3_Witness ==
    /\ op = "min_rating_filter"
    /\ \E i \in ret.train : DistinctSupport(i) < args.min_rating
    /\ \E i \in AllRows : i \notin ret.train

\* C4: non_overlapping_split puts no grouping entity on both sides, and every
\* record of a filtered entity is in exactly one of train and test.
C4_EntityDisjoint ==
    (op = "non_overlapping_split" /\ ret.kind = "pair") =>
        /\ \A i \in ret.train, j \in ret.test : KeyOf(i) # KeyOf(j)
        /\ \A i \in FilteredRows : (i \in ret.train) # (i \in ret.test)

\* C5: in fixed-count mode with sample < min_rating, every retained group
\* has exactly sample records in test and groupSize - sample in train.
C5_FixedCountPerGroup ==
    (IsRankedSplit /\ args.fixed_test_sample /\ args.sample < args.min_rating) =>
        /\ ret.kind = "pair"
        /\ \A k \in RetainedGroups :
              /\ Cardinality(ret.test \cap GroupRows(k)) = args.sample
              /\ Cardinality(ret.train \cap GroupRows(k)) =
                     Cardinality(GroupRows(k)) - args.sample

\* a retained group of three records gives two of them to test
C5_Witness ==
    /\ op = "chronological_split" /\ args.fixed_test_sample
    /\ args.sample = 2 /\ args.min_rating = 3
    /\ ret.kind = "pair"
    /\ \E k \in RetainedGroups :
          /\ Cardinality(GroupRows(k)) = 3
          /\ Cardinality(ret.test \cap GroupRows(k)) = 2

\* k is num / den rounded to the nearest integer, a tie going to the even one
IsRounded(k, num, den) ==
    LET twice == IF k * den >= num THEN 2 * (k * den - num) ELSE 2 * (num - k * den)
    IN  /\ twice <= den
        /\ twice = den => k % 2 = 0

\* C6: in ratio mode every retained group of size n has round(n * ratio)
\* records in test and n - round(n * ratio) in train.
C6_RatioCountPerGroup ==
    (IsRankedSplit /\ ~args.fixed_test_sample) =>
        /\ ret.kind = "pair"
        /\ \A k \in RetainedGroups :
              LET n == Cardinality(GroupRows(k))
                  t == Cardinality(ret.test \cap GroupRows(k))
              IN  /\ IsRounded(t, n * args.ratio, 10)
                  /\ Cardinality(ret.train \cap GroupRows(k)) = n - t

\* a group of three records at ratio 0.5 (1.5 rounds to 2) next to a group of
\* one record (0.5 rounds to 0)
C6_Witness ==
    /\ op = "stratified_split" /\ ~args.fixed_test_sample /\ args.ratio = 5
    /\ ret.kind = "pair"
    /\ \E k \in RetainedGroups :
          /\ Cardinality(GroupRows(k)) = 3
          /\ Cardinality(ret.test \cap GroupRows(k)) = 2
          /\ Cardinality(ret.train \cap GroupRows(k)) = 1

\* C12: stratified_split leaves every retained group at least one record in
\* train, in fixed-count mode with sample < min_rating and in ratio mode for
\* every ratio strictly between 0 and 1.
C12_GroupInTrain ==
    (op = "stratified_split" /\ (args.fixed_test_sample => args.sample < args.min_rating)) =>
        /\ ret.kind = "pair"
        /\ \A k \in RetainedGroups : ret.train \cap GroupRows(k) # {}

\* C13: chronological_split gives test the most recent records of every
\* retained group: no train record of a group is later than a test record of
\* the group, and the train and the test records of the group are disjoint,
\* also when records share a timestamp.
C13_TestMostRecent ==
    (op = "chronological_split" /\ ret.kind = "pair") =>
        \A k \in RetainedGroups :
            LET tr == ret.train \cap GroupRows(k)
                te == ret.test \cap GroupRows(k)
            IN  /\ tr \cap te = {}
                /\ \A i \in tr, j \in te : ratings[i].timeStamp <= ratings[j].timeStamp

\* C15: the test side of non_overlapping_split holds the interactions of
\* exactly round(|entities| * ratio) of the filtered grouping entities and the
\* train side those of the remaining entities.
C15_HeldOutEntityCount ==
    (op = "non_overlapping_split" /\ ret.kind = "pair") =>
        LET heldOut == {KeyOf(i) : i \in ret.test}
        IN  /\ IsRounded(Cardinality(heldOut), Cardinality(RetainedGroups) * args.ratio, 10)
            /\ ret.test = {i \in FilteredRows : KeyOf(i) \in heldOut}
            /\ ret.train = {i \in FilteredRows : KeyOf(i) \notin heldOut}

(***************************************************************************)
(* RankingTrainValidationSplit._fit, from the for loop over                *)
(* pool.imap_unordered on.  The datasets are the tokens "dataset" (the     *)
(* argument of _fit), "train" and "validation" (the pair split returns).   *)
(* None is <<>> and a present value v is <<v>>.                            *)
(***************************************************************************)
None == <<>>
Some(v) == <<v>>

Min(a, b) == IF a <= b THEN a ELSE b

\* epm is identified with the positions 0 .. numModels - 1 of its ParamMaps
Configs == 0..(numModels - 1)

\* ThreadPool(processes=min(self.getParallelism(), numModels))
pool_processesPerModel(p, n) == n
pool_processes(p, n) == Min(p, n)

\* [singleTask] * len(epm): as many tasks as configurations, all the same callable
num_tasksShort(n) == n - 1
num_tasks(n) == n

\* est.fit(data, epm[index]): the model fitted with configuration index on data
Model(index, data) == [config |-> index, data |-> data]

\* a trial a worker thread is running: the position of its task in the list,
\* where the thread stands in singleTask, and the index the iterator gave it
Trial(task, at, index) == [task |-> task, pc |-> at, index |-> index]

\* what a task hands back to imap_unordered: the tuple singleTask returns,
\* or the exception it raised
Returned(task, index, metric, model) ==
    [ok |-> TRUE, task |-> task, index |-> index, metric |-> Some(metric),
     subModel |-> model]
Raised(task, index) ==
    [ok |-> FALSE, task |-> task, index |-> index, metric |-> None,
     subModel |-> None]

\* model if collectSubModel else None
kept_modelAlways(collectSubModel, model) == Some(model)
kept_model(collectSubModel, model) == IF collectSubModel THEN Some(model) ELSE None

\* metrics[j] = metric: the slot is the index the task returned, whatever the
\* position of the task in the list
result_slotOfTask(j, task) == task
result_slot(j, task) == j

\* a result that is an exception is re-raised by the iterator inside the for loop
reraisedNever(result) == FALSE
reraised(result) == ~result.ok

\* np.argmax / np.argmin over a full list: a left-to-right scan that keeps the
\* first position of the extreme value
RECURSIVE arg_scan(_, _, _, _, _)
arg_scan(a, n, i, best, sign) ==
    IF i = n THEN best
    ELSE arg_scan(a, n, i + 1,
                  IF sign * a[i][1] > sign * a[best][1] THEN i ELSE best, sign)

RECURSIVE arg_scan_last(_, _, _, _)
arg_scan_last(a, n, i, best) ==
    IF i = n THEN best
    ELSE arg_scan_last(a, n, i + 1, IF a[i][1] >= a[best][1] THEN i ELSE best)

np_argmaxLast(a) == arg_scan_last(a, Cardinality(DOMAIN a), 0, 0)
np_argmax(a) == arg_scan(a, Cardinality(DOMAIN a), 0, 0, 1)
np_argmin(a) == arg_scan(a, Cardinality(DOMAIN a), 0, 0, 0 - 1)

\* no splitter call is under way
SplitIdle ==
    /\ ratings = <<>> /\ op = "none" /\ args = NoArgs /\ ret = NoReturn

FitInit ==
    /\ SplitIdle
    /\ numModels \in 1..MaxModels
    /\ parallelism \in 1..MaxParallelism
    /\ isLargerBetter \in BOOLEAN
    /\ collectSubModels \in BOOLEAN
    /\ metricOf \in [Configs -> MetricValues]
    /\ counter = 0
    /\ nextTask = 0
    /\ running = {}
    /\ outqueue = <<>>
    /\ taken = 0
    /\ metrics = [i \in Configs |-> None]
    /\ subModels = IF collectSubModels THEN Some([i \in Configs |-> None]) ELSE None
    /\ pc = "loop"
    /\ bestIndex = None
    /\ bestModel = None
    /\ writes = [i \in Configs |-> <<>>]
    /\ raised = {}

\* a free worker thread of the pool takes the next task of the list
WorkerTakeTask ==
    /\ Cardinality(running) < pool_processes(parallelism, numModels)
    /\ nextTask < num_tasks(numModels)
    /\ running' = running \cup {Trial(nextTask, "next", 0)}
    /\ nextTask' = nextTask + 1
    /\ UNCHANGED <<fitParams, counter, outqueue, taken, metrics, subModels, pc,
                   bestIndex, bestModel, writes, raised>>
    /\ UNCHANGED splitVars

\* index, model = next(modelIter): the iterator hands out the next index ...
WorkerNext(t) ==
    /\ t.pc = "next"
    /\ counter < numModels
    /\ running' = (running \ {t}) \cup {Trial(t.task, "fit", counter)}
    /\ counter' = counter + 1
    /\ UNCHANGED <<fitParams, nextTask, outqueue, taken, metrics, subModels, pc,
                   bestIndex, bestModel, writes, raised>>
    /\ UNCHANGED splitVars

\* ... and fits the model of that index on train
WorkerFit(t) ==
    /\ t.pc = "fit"
    /\ running' = (running \ {t}) \cup {Trial(t.task, "evaluate", t.index)}
    /\ UNCHANGED <<fitParams, counter, nextTask, outqueue, taken, metrics, subModels,
                   pc, bestIndex, bestModel, writes, raised>>
    /\ UNCHANGED splitVars

\* the fit raises: the task ends with the exception
WorkerFitRaises(t) ==
    /\ t.pc = "fit"
    /\ outqueue' = Append(outqueue, Raised(t.task, t.index))
    /\ raised' = raised \cup {t.index}
    /\ running' = running \ {t}
    /\ UNCHANGED <<fitParams, counter, nextTask, taken, metrics, subModels, pc,
                   bestIndex, bestModel, writes>>
    /\ UNCHANGED splitVars

\* metric = eva.evaluate(model.transform(validation, epm[index]))
\* return index, metric, model if collectSubModel else None
WorkerEvaluate(t) ==
    /\ t.pc = "evaluate"
    /\ outqueue' = Append(outqueue,
           Returned(t.task, t.index, metricOf[t.index],
                    kept_model(collectSubModels, Model(t.index, "train"))))
    /\ running' = running \ {t}
    /\ UNCHANGED <<fitParams, counter, nextTask, taken, metrics, subModels, pc,
                   bestIndex, bestModel, writes, raised>>
    /\ UNCHANGED splitVars

\* transform or evaluate raises: the task ends with the exception
WorkerEvaluateRaises(t) ==
    /\ t.pc = "evaluate"
    /\ outqueue' = Append(outqueue, Raised(t.task, t.index))
    /\ raised' = raised \cup {t.index}
    /\ running' = running \ {t}
    /\ UNCHANGED <<fitParams, counter, nextTask, taken, metrics, subModels, pc,
                   bestIndex, bestModel, writes>>
    /\ UNCHANGED splitVars

\* the for loop takes results only until an exception has left it
loop_aliveAfterRaise(at) == at \in {"loop", "raised"}
loop_alive(at) == at = "loop"

\* one pass of  for j, metric, subModel in pool.imap_unordered(...):  the
\* results come in the order the tasks finished
LoopBody ==
    /\ loop_alive(pc)
    /\ outqueue # <<>>
    /\ LET result == Head(outqueue)
           j == result.index
           slot == result_slot(j, result.task)
       IN  IF reraised(result)
           THEN /\ pc' = "raised"
                /\ UNCHANGED <<metrics, subModels, writes>>
           ELSE /\ metrics' = [metrics EXCEPT ![slot] = result.metric]
                /\ subModels' = IF collectSubModels
                                THEN Some([subModels[1] EXCEPT ![slot] = result.subModel])
                                ELSE subModels
                /\ writes' = [writes EXCEPT ![slot] = Append(@, j)]
                /\ pc' = pc
    /\ outqueue' = Tail(outqueue)
    /\ taken' = taken + 1
    /\ UNCHANGED <<fitParams, counter, nextTask, running, bestIndex, bestModel, raised>>
    /\ UNCHANGED splitVars

\* the iterator is exhausted once it has yielded one result per task;
\* train.unpersist(), validation.unpersist()
LoopEnd ==
    /\ pc = "loop"
    /\ taken = num_tasks(numModels)
    /\ pc' = "select"
    /\ UNCHANGED <<fitParams, counter, nextTask, running, outqueue, taken, metrics,
                   subModels, bestIndex, bestModel, writes, raised>>
    /\ UNCHANGED splitVars

\* bestIndex = np.argmax(metrics) if eva.isLargerBetter() else np.argmin(metrics)
SelectBest ==
    /\ pc = "select"
    /\ bestIndex' = Some(IF isLargerBetter THEN np_argmax(metrics) ELSE np_argmin(metrics))
    /\ pc' = "refit"
    /\ UNCHANGED <<fitParams, counter, nextTask, running, outqueue, taken, metrics,
                   subModels, bestModel, writes, raised>>
    /\ UNCHANGED splitVars

\* the data of  est.fit(dataset, epm[bestIndex]):  the argument of _fit, not
\* the train side of the split
refit_dataTrain(dataset, train) == train
refit_data(dataset, train) == dataset

\* bestModel = est.fit(dataset, epm[bestIndex]); return the model
Refit ==
    /\ pc = "refit"
    /\ bestModel' = Some(Model(bestIndex[1], refit_data("dataset", "train")))
    /\ pc' = "done"
    /\ UNCHANGED <<fitParams, counter, nextTask, running, outqueue, taken, metrics,
                   subModels, bestIndex, writes, raised>>
    /\ UNCHANGED splitVars

FitNext ==
    \/ WorkerTakeTask
    \/ \E t \in running : WorkerNext(t)
    \/ \E t \in running : WorkerFit(t)
    \/ \E t \in running : WorkerFitRaises(t)
    \/ \E t \in running : WorkerEvaluate(t)
    \/ \E t \in running : WorkerEvaluateRaises(t)
    \/ LoopBody
    \/ LoopEnd
    \/ SelectBest
    \/ Refit

FitSpec == FitInit /\ [][FitNext]_vars

(***************************************************************************)
(* Properties of _fit, checked under FitSpec.                              *)
(***************************************************************************)
AfterLoop == pc \in {"select", "refit", "done"}

\* no task is left to take or under way, and the for loop has nothing to take
Quiescent ==
    /\ nextTask >= num_tasks(numModels)
    /\ running = {}
    /\ pc = "loop" => outqueue = <<>>

\* C7: the chosen bestIndex is the lowest index whose metric is the maximum of
\* the metric array when isLargerBetter() is true, and the lowest index whose
\* metric is the minimum otherwise.
C7_BestIndexFirstExtreme ==
    bestIndex # None =>
        LET b == bestIndex[1]
        IN  /\ b \in Configs
            /\ \A j \in Configs :
                  IF isLargerBetter
                  THEN /\ metrics[j][1] <= metrics[b][1]
                       /\ j < b => metrics[j][1] < metrics[b][1]
                  ELSE /\ metrics[j][1] >= metrics[b][1]
                       /\ j < b => metrics[j][1] > metrics[b][1]

\* metrics [0.5, 0.9, 0.9] (as 1, 2, 2), larger is better: index 1 is chosen
C7_Witness ==
    /\ numModels = 3 /\ isLargerBetter
    /\ metrics = [i \in 0..2 |-> IF i = 0 THEN Some(1) ELSE Some(2)]
    /\ bestIndex = Some(1)

\* C8: whatever the order in which the worker threads take and finish the
\* trials and whatever the pool size, metrics[i] is the metric of the model
\* fitted with configuration i; after the loop the array is the same in
\* every run.
C8_MetricsByConfig ==
    /\ \A i \in Configs : metrics[i] # None => metrics[i] = Some(metricOf[i])
    /\ AfterLoop => metrics = [i \in Configs |-> Some(metricOf[i])]

\* the result of configuration 1 is written while that of configuration 0,
\* whose metric is another, is still to come
C8_Witness ==
    /\ numModels >= 2 /\ metricOf[0] # metricOf[1]
    /\ metrics[1] = Some(metricOf[1])
    /\ metrics[0] = None

\* C9: in a run in which no trial fails, each slot is written at most once and
\* slot i only with the result of the trial that fitted configuration i, and
\* all slots are filled before the best index is selected.
C9_SlotsWrittenOnce ==
    raised = {} =>
        /\ \A i \in Configs : writes[i] \in {<<>>, <<i>>}
        /\ AfterLoop =>
              /\ \A i \in Configs : writes[i] = <<i>>
              /\ \A i \in Configs : metrics[i] # None

\* three configurations on two workers, no trial failing: every slot has been
\* written once and the call is done
C9_Witness ==
    /\ pc = "done" /\ raised = {} /\ numModels = 3 /\ parallelism = 2
    /\ \A i \in Configs : writes[i] = <<i>>

\* C10: once a trial has raised, the call selects no best index, refits
\* nothing and returns no model, and when all work has ended it has raised.
C10_FailureIsFatal ==
    raised # {} =>
        /\ pc \in {"loop", "raised"}
        /\ bestIndex = None
        /\ bestModel = None
        /\ Quiescent => pc = "raised"

\* the call raised after it had written the results of two other trials, the
\* trial of configuration 0 being the one that failed
C10_Witness ==
    /\ numModels = 3
    /\ pc = "raised" /\ Quiescent
    /\ raised = {0}
    /\ metrics[1] # None /\ metrics[2] # None

\* C11: the model fit returns is fitted on the dataset passed to fit, not on
\* the train side of the split, with the configuration at bestIndex, and the
\* refit starts only when every trial has completed.
C11_RefitOnFullDataset ==
    /\ pc \in {"refit", "done"} =>
          /\ running = {} /\ outqueue = <<>>
          /\ nextTask = numModels /\ counter = numModels /\ taken = numModels
          /\ \A i \in Configs : metrics[i] # None
    /\ bestModel # None =>
          /\ pc = "done" /\ bestIndex # None
          /\ bestModel = Some(Model(bestIndex[1], "dataset"))
    /\ pc = "done" => bestModel # None

\* three trials on two workers have all completed and the model of
\* configuration 1, the best one, was fitted on the dataset
C11_Witness ==
    /\ numModels = 3 /\ parallelism = 2
    /\ pc = "done" /\ bestIndex = Some(1)
    /\ bestModel = Some(Model(1, "dataset"))

\* C14: with collectSubModels false, subModels is None and no trial result
\* carries a model; with collectSubModels true, once all trials have completed
\* subModels has one entry per configuration and subModels[i] is the model
\* fitted with configuration i, the one that produced metrics[i], whatever the
\* order in which the trials completed.
C14_SubModelsByConfig ==
    IF collectSubModels
    THEN /\ subModels # None
         /\ DOMAIN subModels[1] = Configs
         /\ \A i \in Configs :
               subModels[1][i] # None =>
                   /\ subModels[1][i] = Some(Model(i, "train"))
                   /\ metrics[i] = Some(metricOf[subModels[1][i][1].config])
         /\ AfterLoop => \A i \in Configs : subModels[1][i] # None
    ELSE /\ subModels = None
         /\ \A n \in 1..Len(outqueue) : outqueue[n].subModel = None

\* the sub-model of configuration 2 is stored while the trial of
\* configuration 0 is still to complete
C14_Witness ==
    /\ numModels = 3 /\ collectSubModels
    /\ subModels[1][2] = Some(Model(2, "train"))
    /\ metrics[2] = Some(metricOf[2])
    /\ subModels[1][0] = None

\* C16 as stated: once the for loop has met the failure of a trial, no trial
\* that had not yet started is started afterwards.
C16_PendingWorkAborted ==
    [][pc = "raised" => nextTask' = nextTask]_vars

\* C16 as amended: once the for loop has met the failure of a trial, the call
\* stays failed, takes no further result and stores, selects and refits
\* nothing more.
C16_NothingStoredAfterFailure ==
    [][pc = "raised" =>
          /\ pc' = "raised"
          /\ taken' = taken
          /\ metrics' = metrics /\ subModels' = subModels
          /\ bestIndex' = bestIndex /\ bestModel' = bestModel]_vars

\* the failure of configuration 0 has been met while a trial is under way and
\* the result of another waits in the queue, never to be stored
C16_Witness ==
    /\ pc = "raised" /\ raised = {0}
    /\ running # {}
    /\ outqueue # <<>> /\ Head(outqueue).ok
    /\ metrics[Head(outqueue).index] = None

\* C17: at every moment at most min(parallelism, numModels) trials are under
\* way, and every trial is run by one worker thread as one unit: a thread has
\* one trial at a time, takes the next task only when its trial has ended,
\* and every task taken is under way in exactly one thread or has ended once.
C17_BoundedWholeTrials ==
    /\ Cardinality(running) <= Min(parallelism, numModels)
    /\ \A t \in running :
          /\ t.task < nextTask
          /\ t.pc \in {"next", "fit", "evaluate"}
          /\ \A u \in running : u.task = t.task => u = t
    /\ Cardinality(running) + Len(outqueue) + taken = nextTask

\* two worker threads for three configurations: one trial is fitting, the
\* other evaluating, and the third task waits for a free thread
C17_Witness ==
    /\ numModels = 3 /\ parallelism = 2 /\ nextTask = 2
    /\ \E t \in running, u \in running : t.pc = "fit" /\ u.pc = "evaluate"

(***************************************************************************)
(* RankingTrainValidationSplit.split, the call that opens _fit: the         *)
(* dataset loses its repeated rows, passes min_rating_filter with min       *)
(* rating 6 and is cut by stratified_split with min rating 3 and the        *)
(* trainRatio as ratio.  The methods of RankingSplitters are those of       *)
(* TrainTestSplit.                                                          *)
(***************************************************************************)
split_min_rating == 6
stratified_min_rating == 3

\* n records of one user, each with an item of its own
UserRows(user, n) == [i \in 1..n |-> [customerID |-> user, itemID |-> i, timeStamp |-> 1]]

\* the datasets passed to fit: user 1 has five or six distinct records, with
\* or without a repeated row, and user 2 none or three
FitDatasets ==
    {UserRows(1, n1) \o (IF twice THEN UserRows(1, 1) ELSE <<>>) \o UserRows(2, n2) :
        n1 \in {5, 6}, twice \in BOOLEAN, n2 \in {0, 3}}

\* dataset.dropDuplicates(): one row of every set of equal rows
dropDuplicates(rows, self) ==
    {i \in self : \A j \in self : j < i => rows[j] # rows[i]}

\* the set of (train, validation) pairs split can return
split(dataset, tRatio) ==
    stratified_split(dataset,
                     min_rating_filter(dataset,
                                       dropDuplicates(dataset, 1..Len(dataset)),
                                       split_min_rating, TRUE),
                     stratified_min_rating, TRUE, tRatio, FALSE, DefaultSample)

FitSplitInit ==
    /\ ratings \in FitDatasets
    /\ op = "none"
    /\ args = NoArgs
    /\ ret = NoReturn
    /\ FitIdle

\* train, validation = self.split(dataset, tRatio, userColumn, itemColumn)
CallSplit ==
    /\ op = "none"
    /\ \E tRatio \in Ratios :
        /\ op' = "split"
        /\ args' = [NoArgs EXCEPT !.min_rating = stratified_min_rating, !.ratio = tRatio]
        /\ ret' \in split(ratings, tRatio)
    /\ UNCHANGED ratings
    /\ UNCHANGED fitVars

FitSplitSpec == FitSplitInit /\ [][CallSplit]_vars

\* the de-duplicated records of a user, and the users with at least 6 of them
DistinctRecords(user) ==
    {i \in dropDuplicates(ratings, AllRows) : ratings[i].customerID = user}
SupportedUsers ==
    {u \in {ratings[i].customerID : i \in AllRows} :
        Cardinality(DistinctRecords(u)) >= 6}

\* C18: the (train, validation) pair used by fit holds only records of users
\* with at least 6 records of the de-duplicated dataset; of the n records of
\* such a user validation receives round(n * trainRatio) and train the
\* remaining ones; the filter with min rating 3 removes nothing that the
\* filter with min rating 6 kept.
C18_SplitOfSupportedUsers ==
    op = "split" =>
        /\ ret.kind = "pair"
        /\ \A i \in ret.train \cup ret.test : ratings[i].customerID \in SupportedUsers
        /\ \A u \in SupportedUsers :
              LET records == DistinctRecords(u)
                  validation == ret.test \cap records
              IN  /\ IsRounded(Cardinality(validation),
                               Cardinality(records) * args.ratio, 10)
                  /\ ret.train \cap records = records \ validation
        /\ LET kept == min_rating_filter(ratings, dropDuplicates(ratings, AllRows), 6, TRUE)
           IN  min_rating_filter(ratings, kept, 3, TRUE) = kept

====
